---- MODULE Spec2Model ----
(***************************************************************************)
(* A model of disk.py, the parted/mkfs wrapper: main() dispatches on the   *)
(* mode, _parse_script() reads the script from stdin, the mode's builder   *)
(* makes the command list and _run_commands() executes it (Spec); of       *)
(* binfmt.py, which registers a binfmt_misc handler (SpecBinfmt); and of   *)
(* build_rpios_tgz of download-image.py (SpecImage).  A run of one program *)
(* leaves the variables of the other two as they are.                      *)
(*                                                                         *)
(* A Python str is a sequence of atoms.  An atom is one character ("/",    *)
(* "=", "#", " ", "%", "\n") or a run of word characters that no operation *)
(* of the program cuts ("mkpart", "1MiB", "sda").                          *)
(***************************************************************************)
EXTENDS Integers, Sequences, FiniteSets, TLC

\* The longest script, in lines.
MaxLines == 3

----------------------------------------------------------------------------
\* Strings

S(a) == <<a>>

NL == "\n"

\* The whitespace of str.split() and of \s.
Spaces == {" ", "\t", "\n"}

IsSpace(c) == c \in Spaces

\* The atoms outside the class \w of the regular expression.
NonWord == Spaces \cup {"#", "=", "/", "%", "-", "."}

IsWord(c) == c \notin NonWord

Has(seq, x) == \E i \in 1..Len(seq) : seq[i] = x

Last(seq) == seq[Len(seq)]

Reverse(seq) == [i \in 1..Len(seq) |-> seq[Len(seq) + 1 - i]]

RECURSIVE Cat(_)
Cat(ss) == IF ss = <<>> THEN <<>> ELSE Head(ss) \o Cat(Tail(ss))

\* sep.join(ss)
RECURSIVE Join(_, _)
Join(ss, sep) ==
    IF ss = <<>> THEN <<>>
    ELSE IF Len(ss) = 1 THEN Head(ss)
    ELSE Head(ss) \o sep \o Join(Tail(ss), sep)

\* The first place from i on where s holds an atom of stops, Len(s) + 1
\* when there is none.
RECURSIVE RunEnd(_, _, _)
RunEnd(s, i, stops) ==
    IF i > Len(s) \/ s[i] \in stops THEN i ELSE RunEnd(s, i + 1, stops)

\* The length of the longest prefix of s that holds no atom of stops.
RunLen(s, stops) == RunEnd(s, 1, stops) - 1

RECURSIVE SplitFrom(_, _, _)
SplitFrom(s, i, sep) ==
    LET e == RunEnd(s, i, {sep})
    IN  IF e > Len(s) THEN <<SubSeq(s, i, Len(s))>>
        ELSE <<SubSeq(s, i, e - 1)>> \o SplitFrom(s, e + 1, sep)

\* s.split(sep): every piece, the empty ones included.
Split(s, sep) == SplitFrom(s, 1, sep)

\* (s.split(sep, 1) + [""])[:2]
SplitOnce(s, sep) ==
    LET n == RunLen(s, {sep})
    IN  IF n = Len(s) THEN <<s, <<>>>>
        ELSE <<SubSeq(s, 1, n), SubSeq(s, n + 2, Len(s))>>

RECURSIVE SplitWsFrom(_, _)
SplitWsFrom(s, i) ==
    IF i > Len(s) THEN <<>>
    ELSE IF IsSpace(s[i]) THEN SplitWsFrom(s, i + 1)
    ELSE LET e == RunEnd(s, i, Spaces)
         IN  <<SubSeq(s, i, e - 1)>> \o SplitWsFrom(s, e)

\* s.split(): the maximal runs of non-whitespace.
SplitWs(s) == SplitWsFrom(s, 1)

\* filter(None, xs)
FilterNone(xs) == SelectSeq(xs, LAMBDA x : x # <<>>)

\* re.findall(r"(\w+)=([^\s]+)", s): the <<key, value>> pairs, left to right.
RECURSIVE FindAll(_)
FindAll(s) ==
    IF s = <<>> THEN <<>>
    ELSE IF ~IsWord(Head(s)) THEN FindAll(Tail(s))
    ELSE LET k    == RunLen(s, NonWord)
             rest == SubSeq(s, k + 1, Len(s))
         IN  IF Len(rest) >= 2 /\ rest[1] = "=" /\ ~IsSpace(rest[2])
             THEN LET v == RunLen(Tail(rest), Spaces)
                  IN  <<<<SubSeq(s, 1, k), SubSeq(rest, 2, v + 1)>>>>
                          \o FindAll(SubSeq(rest, v + 2, Len(rest)))
             ELSE FindAll(rest)

\* dict(pairs).get(key, ""): the last pair of a key wins.
RECURSIVE ParamsGet(_, _)
ParamsGet(pairs, key) ==
    IF pairs = <<>> THEN <<>>
    ELSE IF Last(pairs)[1] = key THEN Last(pairs)[2]
    ELSE ParamsGet(SubSeq(pairs, 1, Len(pairs) - 1), key)

----------------------------------------------------------------------------
\* The program's state

VARIABLES
    argv,         \* sys.argv
    stdin,        \* the script on standard input
    installed,    \* the program names the search path resolves
    pc,           \* "main", "parse", "run" or "exit"
    lines,        \* the non-empty lines the loop of _parse_script walks
    ln,           \* the next of them
    parted,       \* _parse_script's parted
    filesystems,  \* _parse_script's filesystems
    npart,        \* _parse_script's npart
    cmds,         \* the command list handed to _run_commands
    ip,           \* the next command of it
    started,      \* the external processes started so far, as [executable, *args]
    rcs,          \* their exit codes
    status,       \* the exit status of the run, -1 while it runs
    error,        \* what ended the run
    output        \* what print-size printed

disk_vars == <<argv, stdin, installed, pc, lines, ln, parted, filesystems, npart,
          cmds, ip, started, rcs, status, error, output>>

\* binfmt.py
VARIABLES
    binfmt_pc,      \* "main", "mount", "check", "install", "ready", "exit"; "off"
    options,        \* what argparse made of the command line
    uid,            \* os.getuid()
    handler,        \* the file of the architecture under binfmt_misc, or NoFile
    mounts,         \* the mount commands run so far, each with its exit code
    exists,         \* what os.path.exists gave: "unchecked", "no" or "yes"
    register,       \* what was written to the register file, write by write
    binfmt_status,  \* the exit status, -1 while the program runs
    binfmt_error    \* what ended the run

binfmt_vars == <<binfmt_pc, options, uid, handler, mounts, exists, register,
                 binfmt_status, binfmt_error>>

\* build_rpios_tgz of download-image.py
VARIABLES
    image_pc,       \* "build", "try", "parse", "rm", "rmdir", "leave", "exit"; "off"
    image_args,     \* filename, img_file, output_dir, uid and gid
    image_ip,       \* the next command of the try block
    kpartx_output,  \* what "kpartx -av" printed
    image_log,      \* the commands _run started, each with its exit code
    pending,        \* the exception that is being raised, "none" without one
    image_status    \* the exit status, -1 while the program runs

image_vars == <<image_pc, image_args, image_ip, kpartx_output, image_log,
                pending, image_status>>

vars == <<disk_vars, binfmt_vars, image_vars>>

\* What handler holds while the file is not there; no content of a file
NoFile == <<"<no file>">>

\* The programs that are not run

BinfmtOff ==
    /\ binfmt_pc = "off"
    /\ options = <<>>
    /\ uid = 0
    /\ handler = NoFile
    /\ mounts = <<>>
    /\ exists = "unchecked"
    /\ register = <<>>
    /\ binfmt_status = -1
    /\ binfmt_error = "none"

ImageOff ==
    /\ image_pc = "off"
    /\ image_args = <<>>
    /\ image_ip = 1
    /\ kpartx_output = <<>>
    /\ image_log = <<>>
    /\ pending = "none"
    /\ image_status = -1

parse_vars == <<lines, ln, parted, filesystems, npart>>

run_vars == <<cmds, ip, started, rcs>>

\* sys.argv[1], sys.argv[2], sys.argv[3]
mode == argv[2]

device_path == argv[3]

Modes == {S("format"), S("mkfs"), S("mount"), S("umount"), S("print-size")}

\* len(sys.argv) each mode asks for
Argc(m) ==
    CASE m = S("format")     -> 3
      [] m = S("mkfs")       -> 3
      [] m = S("mount")      -> 4
      [] m = S("umount")     -> 3
      [] m = S("print-size") -> 2

\* main without the "len(sys.argv) != n" tests of the modes
usage_error_uncounted ==
    \/ Len(argv) < 2
    \/ mode \notin Modes

\* The "raise SystemExit(f'Usage: ...')" branches of main
UsageError ==
    \/ Len(argv) < 2
    \/ mode \notin Modes
    \/ Len(argv) # Argc(mode)

\* The run ends: SystemExit, or an exception no handler catches (status 1)
Exit(code, why) ==
    /\ pc' = "exit"
    /\ status' = code
    /\ error' = why

----------------------------------------------------------------------------
\* _parse_script

Pct == <<"100", "%">>

\* dask.utils.parse_bytes on the size tokens of the scripts: number, then
\* multiplier (MiB = 2^20, GiB = 2^30, kB = 10^3, none = 1); the number is
\* read by float(), sign included
ByteTable ==
    (S("0") :> 0) @@ (S("0MiB") :> 0) @@ (S("1kB") :> 1000)
    @@ (S("-1MiB") :> -1048576)
    @@ (S("1MiB") :> 1048576) @@ (S("256MiB") :> 268435456)
    @@ (S("1GiB") :> 1073741824)

\* parse_bytes raises ValueError for anything else ("100%", "junk")
CanParse(tok) == tok \in DOMAIN ByteTable

parse_bytes(tok) == ByteTable[tok]

\* line 61
Qualifies(left) ==
    Has(left, S("mkpart")) /\ (Has(left, S("primary")) \/ Has(left, S("logical")))

\* line 62: assert len(left) >= 5
TooShort(left) == Len(left) < 5

\* line 71
end_of(tok) == IF tok = Pct THEN 0 ELSE parse_bytes(tok)

\* lines 70-71: either call of parse_bytes raises
SizeError(left) ==
    ~CanParse(left[4]) \/ (left[5] # Pct /\ ~CanParse(left[5]))

\* lines 63-72
Mkfs(n, left, right) ==
    LET params == FindAll(right)
    IN  [npart    |-> n,
         fs       |-> left[3],
         label    |-> ParamsGet(params, S("label")),
         reserved |-> ParamsGet(params, S("reserved")),
         mount    |-> ParamsGet(params, S("mount")),
         begin    |-> parse_bytes(left[4]),
         end      |-> end_of(left[5])]

\* The counter is advanced by every line
next_npart_every_line(n, left) == n + 1

\* line 73
next_npart(n, left) == IF Qualifies(left) THEN n + 1 ELSE n

\* One pass of the loop of lines 57-74
parse_script ==
    /\ pc = "parse"
    /\ ln <= Len(lines)
    /\ LET parts == SplitOnce(lines[ln], "#")
           left  == SplitWs(parts[1])
           right == parts[2]
       IN  IF Qualifies(left) /\ TooShort(left)
           THEN /\ Exit(1, "AssertionError")
                /\ UNCHANGED parse_vars
           ELSE IF Qualifies(left) /\ SizeError(left)
           THEN /\ Exit(1, "ValueError")
                /\ UNCHANGED parse_vars
           ELSE /\ filesystems' = IF Qualifies(left)
                                  THEN Append(filesystems, Mkfs(npart, left, right))
                                  ELSE filesystems
                /\ npart' = next_npart(npart, left)
                /\ parted' = Append(parted, left)
                /\ ln' = ln + 1
                /\ UNCHANGED <<lines, pc, status, error>>
    /\ UNCHANGED <<argv, stdin, installed, run_vars, output>>
    /\ UNCHANGED <<binfmt_vars, image_vars>>

\* main, lines 204-227, up to the script being read (sys.stdin.read(), line 57)
main ==
    /\ pc = "main"
    /\ IF UsageError
       THEN /\ Exit(1, "usage")
            /\ UNCHANGED lines
       ELSE /\ lines' = FilterNone(Split(stdin, NL))
            /\ pc' = "parse"
            /\ UNCHANGED <<status, error>>
    /\ UNCHANGED <<argv, stdin, installed, ln, parted, filesystems, npart,
                   run_vars, output>>
    /\ UNCHANGED <<binfmt_vars, image_vars>>

----------------------------------------------------------------------------
\* The command builders

\* What shutil.which gives when nothing is found; no string of the program
\* equals it
None == S("<None>")

\* The directory of the search path the programs are installed in
BinDir == <<"/", "bin", "/">>

\* os.path.basename
basename(path) == Last(Split(path, "/"))

\* shutil.which: a name is looked up in the search path, a path with a
\* directory is taken as it is when the file is there
which(cmd) ==
    IF Has(cmd, "/")
    THEN IF basename(cmd) \in installed THEN cmd ELSE None
    ELSE IF cmd \in installed THEN BinDir \o cmd ELSE None

\* f"{npart}"
Digits == <<"1", "2", "3", "4", "5", "6", "7", "8", "9">>

str(n) == S(Digits[n])

\* str.startswith(("mmcblk", "loop")), line 90
needs_p(device) == device # <<>> /\ device[1] \in {"mmcblk", "loop"}

\* "loop" in device: the names are looked for in the whole path
make_partition_anywhere(path, n) ==
    IF \E k \in 1..Len(path) : path[k] \in {"mmcblk", "loop"}
    THEN path \o S("p") \o str(n)
    ELSE path \o str(n)

\* _make_partition, lines 89-90
make_partition(path, n) ==
    IF needs_p(basename(path)) THEN path \o S("p") \o str(n) ELSE path \o str(n)

\* The two commands every format and mkfs list ends with
reprobe(device) ==
    << <<which(S("partprobe")), device>>,
       <<which(S("partx")), S("-vu"), device>> >>

\* parted is run for the lines that make a partition only
format_cmds_makers(lefts, device) ==
    [i \in 1..Len(SelectSeq(lefts, Qualifies)) |->
        <<which(S("parted")), device, S("-a"), S("optimal"), S("-s")>>
        \o SelectSeq(lefts, Qualifies)[i]]
    \o reprobe(device)

\* _format_disk, lines 119-123
format_cmds(lefts, device) ==
    [i \in 1..Len(lefts) |->
        <<which(S("parted")), device, S("-a"), S("optimal"), S("-s")>> \o lefts[i]]
    \o reprobe(device)

\* "else" for "elif mkfs.fs == 'ext4'": every other kind is made as ext4
unsupported_never(mkfs) == FALSE

\* _mkfs_disk, line 147: the else branch that raises RuntimeError
unsupported(mkfs) == mkfs.fs \notin {S("fat32"), S("ext4")}

\* _mkfs_disk, lines 136-149: the command of one partition
mkfs_cmd(device, mkfs) ==
    IF mkfs.fs = S("fat32")
    THEN <<which(S("mkfs.vfat"))>>
         \o (IF mkfs.label # <<>> THEN <<S("-n"), mkfs.label>> ELSE <<>>)
         \o <<make_partition(device, mkfs.npart)>>
    ELSE <<which(S("mkfs.ext4"))>>
         \o (IF mkfs.label # <<>> THEN <<S("-L"), mkfs.label>> ELSE <<>>)
         \o (IF mkfs.reserved # <<>> THEN <<S("-m"), mkfs.reserved>> ELSE <<>>)
         \o <<make_partition(device, mkfs.npart)>>

\* The "if mkfs.mount" of _mount_disk copied into _mkfs_disk
mkfs_cmds_mounted(fss, device) ==
    LET kept == SelectSeq(fss, LAMBDA f : f.mount # <<>>)
    IN  [i \in 1..Len(kept) |-> mkfs_cmd(device, kept[i])] \o reprobe(device)

\* _mkfs_disk, lines 134-152
mkfs_cmds(fss, device) ==
    [i \in 1..Len(fss) |-> mkfs_cmd(device, fss[i])] \o reprobe(device)

\* The key without filter(None, ...): the empty pieces are counted too
depth_unfiltered(mount) == Len(Split(mount, "/"))

\* The sort key of line 166
depth(mount) == Len(FilterNone(Split(mount, "/")))

\* An unstable sort: x goes in front of the elements of its own key
RECURSIVE insert_before_ties(_, _)
insert_before_ties(sorted, x) ==
    IF sorted = <<>> THEN <<x>>
    ELSE IF depth(Last(sorted).mount) < depth(x.mount) THEN Append(sorted, x)
    ELSE Append(insert_before_ties(SubSeq(sorted, 1, Len(sorted) - 1), x),
                Last(sorted))

\* sorted() is stable: x, the last of the input, goes behind every element
\* whose key is not greater
RECURSIVE insert(_, _)
insert(sorted, x) ==
    IF sorted = <<>> THEN <<x>>
    ELSE IF depth(Last(sorted).mount) <= depth(x.mount) THEN Append(sorted, x)
    ELSE Append(insert(SubSeq(sorted, 1, Len(sorted) - 1), x), Last(sorted))

RECURSIVE sorted_by_depth(_)
sorted_by_depth(fss) ==
    IF fss = <<>> THEN <<>>
    ELSE insert(sorted_by_depth(SubSeq(fss, 1, Len(fss) - 1)), Last(fss))

\* sorted(..., reverse=True) in place of reverse(): descending, and stable
RECURSIVE sorted_descending(_)
sorted_descending(fss) ==
    IF fss = <<>> THEN <<>>
    ELSE LET x    == Last(fss)
             rest == sorted_descending(SubSeq(fss, 1, Len(fss) - 1))
             n    == Cardinality({k \in 1..Len(rest) :
                                     depth(rest[k].mount) >= depth(x.mount)})
         IN  SubSeq(rest, 1, n) \o <<x>> \o SubSeq(rest, n + 1, Len(rest))

mount_order_stable(fss, mount) ==
    IF mount THEN sorted_by_depth(fss) ELSE sorted_descending(fss)

\* lines 166-168
mount_order(fss, mount) ==
    IF mount THEN sorted_by_depth(fss) ELSE Reverse(sorted_by_depth(fss))

\* mount before the mkdir of its mount point
mount_cmd_mount_first(device, prefix, mount, mkfs) ==
    IF mkfs.mount = <<>> THEN <<>>
    ELSE IF mount
    THEN << <<which(S("mount")), make_partition(device, mkfs.npart),
              prefix \o S("/") \o mkfs.mount>>,
            <<which(S("mkdir")), S("-p"), prefix \o S("/") \o mkfs.mount>> >>
    ELSE << <<which(S("umount")), make_partition(device, mkfs.npart)>> >>

\* "if mkfs.mount" around the mount branch only: every partition is unmounted
mount_cmd_umount_all(device, prefix, mount, mkfs) ==
    IF mount
    THEN IF mkfs.mount = <<>> THEN <<>>
         ELSE << <<which(S("mkdir")), S("-p"), prefix \o S("/") \o mkfs.mount>>,
                 <<which(S("mount")), make_partition(device, mkfs.npart),
                   prefix \o S("/") \o mkfs.mount>> >>
    ELSE << <<which(S("umount")), make_partition(device, mkfs.npart)>> >>

\* lines 170-177: the commands of one partition
mount_cmd(device, prefix, mount, mkfs) ==
    IF mkfs.mount = <<>> THEN <<>>
    ELSE IF mount
    THEN << <<which(S("mkdir")), S("-p"), prefix \o S("/") \o mkfs.mount>>,
            <<which(S("mount")), make_partition(device, mkfs.npart),
              prefix \o S("/") \o mkfs.mount>> >>
    ELSE << <<which(S("umount")), make_partition(device, mkfs.npart)>> >>

\* _mount_disk, lines 165-177
mount_cmds(fss, device, prefix, mount) ==
    LET ordered == mount_order(fss, mount)
    IN  Cat([i \in 1..Len(ordered) |-> mount_cmd(device, prefix, mount, ordered[i])])

----------------------------------------------------------------------------
\* _print_size.  A Python int has no width; the sizes pass 2^31, so a size
\* is kept as hi * 65536 + lo.

Big(n) == [hi |-> n \div 65536, lo |-> n % 65536]

\* 2048 * 1024 * 1024, line 196
TwoGb == [hi |-> 32768, lo |-> 0]

BigAdd(a, b) ==
    [hi |-> a.hi + b.hi + ((a.lo + b.lo) \div 65536), lo |-> (a.lo + b.lo) % 65536]

\* a % 4096: 65536 is a multiple of 4096
BigMod4096(a) == a.lo % 4096

\* a - m for 0 <= m <= a.lo
BigSubSmall(a, m) == [hi |-> a.hi, lo |-> a.lo - m]

\* max() in place of the assignment: the walk keeps the first size it met
size_step_first(size, mkfs) ==
    IF size > 0 THEN size ELSE IF mkfs.end > 0 THEN mkfs.end ELSE mkfs.begin

\* lines 191-195: one pass of the loop
size_step(size, mkfs) == IF mkfs.end > 0 THEN mkfs.end ELSE mkfs.begin

RECURSIVE size_walk(_, _)
size_walk(fss, size) ==
    IF fss = <<>> THEN size ELSE size_walk(Tail(fss), size_step(size, Head(fss)))

\* Aligned up: the remainder is taken off and 4096 is added
aligned_up(size) ==
    LET sum == BigAdd(Big(size), TwoGb)
    IN  IF BigMod4096(sum) = 0 THEN sum
        ELSE BigAdd(BigSubSmall(sum, BigMod4096(sum)), Big(4096))

\* lines 196-197
aligned(size) ==
    LET sum == BigAdd(Big(size), TwoGb)
    IN  BigSubSmall(sum, BigMod4096(sum))

----------------------------------------------------------------------------
\* The modes: what follows the return of _parse_script

\* "return" inside the loop of _parse_script: it returns after the first line
ReturnedInLoop == pc = "parse" /\ (ln > 1 \/ ln > Len(lines))

Parsed == pc = "parse" /\ ln > Len(lines)

Run(list) ==
    /\ cmds' = list
    /\ pc' = "run"
    /\ UNCHANGED <<ip, started, rcs, status, error, output>>

format_disk ==
    /\ Parsed
    /\ mode = S("format")
    /\ Run(format_cmds(parted, device_path))
    /\ UNCHANGED <<argv, stdin, installed, parse_vars>>
    /\ UNCHANGED <<binfmt_vars, image_vars>>

mkfs_disk ==
    /\ Parsed
    /\ mode = S("mkfs")
    /\ IF \E i \in 1..Len(filesystems) : unsupported(filesystems[i])
       THEN /\ Exit(1, "RuntimeError")
            /\ UNCHANGED <<run_vars, output>>
       ELSE Run(mkfs_cmds(filesystems, device_path))
    /\ UNCHANGED <<argv, stdin, installed, parse_vars>>
    /\ UNCHANGED <<binfmt_vars, image_vars>>

mount_disk ==
    /\ Parsed
    /\ mode \in {S("mount"), S("umount")}
    /\ Run(IF mode = S("mount")
           THEN mount_cmds(filesystems, device_path, argv[4], TRUE)
           ELSE mount_cmds(filesystems, device_path, <<"/", "dev", "/", "null">>, FALSE))
    /\ UNCHANGED <<argv, stdin, installed, parse_vars>>
    /\ UNCHANGED <<binfmt_vars, image_vars>>

print_size ==
    /\ Parsed
    /\ mode = S("print-size")
    /\ output' = <<aligned(size_walk(filesystems, 0))>>
    /\ Exit(0, "none")
    /\ UNCHANGED <<argv, stdin, installed, parse_vars, run_vars>>
    /\ UNCHANGED <<binfmt_vars, image_vars>>

----------------------------------------------------------------------------
\* _run_commands

\* The exit codes of an external command
ExitCodes == {0, 1}

\* check=True left out: a failing command raises nothing
never_failed(rc) == FALSE

\* subprocess.run(check=True) raises CalledProcessError, line 107
failed(rc) == rc # 0

\* line 101: " ".join(cmd) raises TypeError for a cmd that holds None
unjoinable(cmd) == Has(cmd, None)

\* One pass of the loop of lines 100-109.  The builders have resolved
\* cmd[0]; which() of a resolved path gives that path again while the file
\* is there, so line 106 is met only for a file that went away.
run_commands ==
    /\ pc = "run"
    /\ ip <= Len(cmds)
    /\ LET cmd == cmds[ip]
           executable == which(cmd[1])
       IN  IF unjoinable(cmd)
           THEN /\ Exit(1, "TypeError")
                /\ UNCHANGED run_vars
           ELSE IF executable = None
           THEN /\ Exit(1, "FileNotFoundError")
                /\ UNCHANGED run_vars
           ELSE \E rc \in ExitCodes :
                /\ started' = Append(started, <<executable>> \o Tail(cmd))
                /\ rcs' = Append(rcs, rc)
                /\ IF failed(rc)
                   THEN /\ Exit(1, "CalledProcessError")
                        /\ UNCHANGED ip
                   ELSE /\ ip' = ip + 1
                        /\ UNCHANGED <<pc, status, error>>
                /\ UNCHANGED cmds
    /\ UNCHANGED <<argv, stdin, installed, parse_vars, output>>
    /\ UNCHANGED <<binfmt_vars, image_vars>>

\* The loop is over: _run_commands and main return
main_return ==
    /\ pc = "run"
    /\ ip > Len(cmds)
    /\ Exit(0, "none")
    /\ UNCHANGED <<argv, stdin, installed, parse_vars, run_vars, output>>
    /\ UNCHANGED <<binfmt_vars, image_vars>>

----------------------------------------------------------------------------
\* The inputs: invocations, scripts and search paths

Prog == S("disk.py")

Sda == <<"/", "dev", "/", "sda">>

Mmc == <<"/", "dev", "/", "mmcblk", "0">>

Loop == <<"/", "dev", "/", "loop", "0">>

Prefix == <<"/", "mnt">>

Programs ==
    {S("parted"), S("partprobe"), S("partx"), S("mkfs.vfat"), S("mkfs.ext4"),
     S("mkdir"), S("mount"), S("umount")}

\* A line: its words, and the comment behind them
Words(ws) == Join(ws, S(" "))

Commented(ws, metas) == Words(ws) \o <<" ", "#", " ">> \o Words(metas)

Mkpart(kind, fs, begin, end) == <<S("mkpart"), S(kind), S(fs), begin, end>>

KV(key, value) == <<key, "=">> \o value

Mklabel == Words(<<S("mklabel"), S("msdos")>>)

\* Every script of 1..MaxLines lines of set
Scripts(set) ==
    {Join(ls, S(NL)) : ls \in UNION {[1..n -> set] : n \in 1..MaxLines}}

\* The scripts the modes are run on with a program missing
RunLines ==
    {Mklabel,
     Commented(Mkpart("primary", "fat32", S("1MiB"), S("256MiB")),
               <<KV("label", S("boot")), KV("mount", S("boot"))>>),
     Commented(Mkpart("primary", "ext4", S("256MiB"), Pct),
               <<KV("mount", <<"boot", "/", "efi">>)>>)}

\* The mount paths of the mount and umount runs
MountPaths == {<<>>, S("a"), S("b"), <<"a", "/", "b">>, <<"/", "a", "/">>, S("/")}

MountLines ==
    {IF m = <<>> THEN Words(Mkpart("primary", "ext4", S("1MiB"), Pct))
     ELSE Commented(Mkpart("primary", "ext4", S("1MiB"), Pct), <<KV("mount", m)>>)
     : m \in MountPaths}

\* The lines the parser is tried on: blank, passed through, well-formed and
\* malformed
ParseLines ==
    {<<>>,
     S(" "),
     Mklabel,
     Words(Mkpart("primary", "fat32", S("1MiB"), S("256MiB"))),
     Words(Mkpart("logical", "ext4", S("256MiB"), Pct)),
     Words(Mkpart("primary", "ext4", S("0MiB"), S("0"))),
     Words(Mkpart("primary", "ext4", S("1MiB"), S("junk"))),
     Words(<<S("mkpart"), S("primary"), S("ext4"), S("1MiB")>>)}

\* The sizes of the print-size runs: ascending and not, off the 4096
\* boundary, up to the end of the device and counted from its end
SizeLines ==
    {Words(Mkpart("primary", "fat32", S("1MiB"), S("256MiB"))),
     Words(Mkpart("primary", "ext4", S("256MiB"), S("1GiB"))),
     Words(Mkpart("primary", "ext4", S("1kB"), Pct)),
     Words(Mkpart("primary", "ext4", S("0MiB"), S("1kB"))),
     Words(Mkpart("primary", "ext4", S("256MiB"), S("-1MiB")))}

\* The filesystems of the mkfs runs
MkfsLines ==
    {Words(Mkpart("primary", "fat32", S("1MiB"), S("256MiB"))),
     Commented(Mkpart("primary", "fat32", S("1MiB"), S("256MiB")),
               <<KV("label", S("boot")), KV("mount", S("boot"))>>),
     Commented(Mkpart("primary", "ext4", S("256MiB"), Pct),
               <<KV("label", S("root")), <<"mount", "=">>>>),
     Commented(Mkpart("primary", "ext4", S("256MiB"), Pct),
               <<KV("reserved", S("5")), KV("mount", S("/"))>>),
     Commented(Mkpart("logical", "ext4", S("256MiB"), S("1GiB")),
               <<KV("label", S("data")), KV("reserved", S("1"))>>),
     Commented(Mkpart("primary", "btrfs", S("256MiB"), Pct),
               <<KV("label", S("pool"))>>)}

\* Devices whose directory, or the middle of whose name, holds a name that
\* asks for "p", a device without a directory and one that ends in "/"
PathDevices ==
    {<<"/", "loop", "/", "sda">>,
     <<"/", "dev", "/", "my", "loop", "0">>,
     <<"mmcblk", "0">>,
     <<"/", "mmcblk", "/", "loop", "back">>,
     <<"/", "dev", "/", "loop", "0", "/">>}

\* A second mount prefix
SrvPrefix == <<"/", "srv", "/", "img">>

PathInvocations ==
    {<<Prog, S("mkfs"), d>> : d \in PathDevices}
    \cup {<<Prog, S("mount"), d, SrvPrefix>> : d \in PathDevices}
    \cup {<<Prog, S("umount"), d>> : d \in PathDevices}

\* One program of the search path missing, or none
SearchPaths == {Programs} \cup {Programs \ {p} : p \in Programs}

Invocations(devices) ==
    {<<Prog, S("format"), d>> : d \in devices}
    \cup {<<Prog, S("mkfs"), d>> : d \in devices}
    \cup {<<Prog, S("mount"), d, Prefix>> : d \in devices}
    \cup {<<Prog, S("umount"), d>> : d \in devices}
    \cup {<<Prog, S("print-size")>>}

BadInvocations ==
    {<<Prog>>, <<Prog, S("erase"), Sda>>, <<Prog, S("format")>>,
     <<Prog, S("mkfs"), Sda, Prefix>>, <<Prog, S("mount"), Sda>>,
     <<Prog, S("umount")>>, <<Prog, S("print-size"), Sda>>}

\* The state main starts in
Start(invocations, scripts, paths) ==
    /\ argv \in invocations
    /\ stdin \in scripts
    /\ installed \in paths
    /\ pc = "main"
    /\ lines = <<>>
    /\ ln = 1
    /\ parted = <<>>
    /\ filesystems = <<>>
    /\ npart = 1
    /\ cmds = <<>>
    /\ ip = 1
    /\ started = <<>>
    /\ rcs = <<>>
    /\ status = -1
    /\ error = "none"
    /\ output = <<>>
    /\ BinfmtOff
    /\ ImageOff

Init ==
    \/ Start(Invocations({Sda}), Scripts(RunLines), SearchPaths)
    \/ Start({a \in Invocations({Loop}) : a[2] \in {S("mount"), S("umount")}},
             Scripts(MountLines), {Programs})
    \/ Start({a \in Invocations({Sda}) : a[2] \in {S("format"), S("print-size")}},
             Scripts(ParseLines), {Programs})
    \/ Start({a \in Invocations({Sda, Mmc}) : a[2] = S("mkfs")},
             Scripts(MkfsLines), {Programs})
    \/ Start(BadInvocations, Scripts({Mklabel}), {Programs})
    \/ Start(PathInvocations, Scripts(RunLines), {Programs})
    \/ Start({<<Prog, S("print-size")>>}, Scripts(SizeLines), {Programs})

Next ==
    \/ main
    \/ parse_script
    \/ format_disk
    \/ mkfs_disk
    \/ mount_disk
    \/ print_size
    \/ run_commands
    \/ main_return

Spec == Init /\ [][Next]_vars

----------------------------------------------------------------------------
\* binfmt.py

\* disk.py is not run
DiskOff ==
    /\ argv = <<>>
    /\ stdin = <<>>
    /\ installed = {}
    /\ pc = "off"
    /\ lines = <<>>
    /\ ln = 1
    /\ parted = <<>>
    /\ filesystems = <<>>
    /\ npart = 1
    /\ cmds = <<>>
    /\ ip = 1
    /\ started = <<>>
    /\ rcs = <<>>
    /\ status = -1
    /\ error = "none"
    /\ output = <<>>

\* r"\x", the two characters in front of a byte of a pattern
Bx == "\\x"

\* The bytes of a pattern, each behind r"\x"
Escaped(bytes) == Cat([i \in 1..Len(bytes) |-> <<Bx, bytes[i]>>])

\* n times the byte b
Times(n, b) == [i \in 1..n |-> b]

\* _BINFMT_DB, lines 46-62
BINFMT_DB ==
    (S("arm") :>
        [name  |-> "ARM",
         arch  |-> S("arm"),
         magic |-> <<Bx, "7f", "ELF">>
                   \o Escaped(<<"01", "01", "01">> \o Times(9, "00")
                              \o <<"02", "00", "28", "00">>),
         mask  |-> Escaped(Times(7, "ff") \o <<"00">> \o Times(8, "ff")
                           \o <<"fe">> \o Times(3, "ff"))])
    @@ (S("aarch64") :>
        [name  |-> "AArch64",
         arch  |-> S("aarch64"),
         magic |-> <<Bx, "7f", "ELF">>
                   \o Escaped(<<"02", "01", "01">> \o Times(9, "00")
                              \o <<"02", "00", "b7", "00">>),
         mask  |-> Escaped(Times(7, "ff") \o <<"00">> \o Times(8, "ff")
                           \o <<"fe">> \o Times(3, "ff"))])

\* s.replace(old, new) for an atom old
Replace(s, old, new) ==
    Cat([i \in 1..Len(s) |-> IF s[i] = old THEN new ELSE <<s[i]>>])

\* dict(pairs).get(key, default): the last pair of a key wins
RECURSIVE Get(_, _, _)
Get(pairs, key, default) ==
    IF pairs = <<>> THEN default
    ELSE IF Last(pairs)[1] = key THEN Last(pairs)[2]
    ELSE Get(SubSeq(pairs, 1, Len(pairs) - 1), key, default)

\* lines 101-104: the rows of the handler file as key and value
current_params(file) ==
    LET rows == FilterNone(Split(file, NL))
    IN  [i \in 1..Len(rows) |-> SplitOnce(rows[i], " ")]

\* Every handler that is found is taken as it is
mismatch_never(file, binfmt, interpreter_path) == <<>>

\* lines 107-115: the names whose current value is not the expected one
mismatch(file, binfmt, interpreter_path) ==
    LET params == current_params(file)
        triples ==
            << <<"magic", Replace(Get(params, S("magic"), <<>>), "454c46", S("ELF")),
                 Replace(binfmt.magic, Bx, <<>>)>>,
               <<"mask", Get(params, S("mask"), <<>>),
                 Replace(binfmt.mask, Bx, <<>>)>>,
               <<"interpreter", Get(params, S("interpreter"), None),
                 interpreter_path>> >>
        differ == SelectSeq(triples, LAMBDA t : t[2] # t[3])
    IN  [i \in 1..Len(differ) |-> differ[i][1]]

\* line 157: what is written to the register file
registration(binfmt, interpreter_path) ==
    <<":">> \o binfmt.arch \o <<":", "M", ":", ":">> \o binfmt.magic \o <<":">>
    \o binfmt.mask \o <<":">> \o interpreter_path \o <<":">>

\* What the kernel shows of a handler: the magic and the mask in hex
KernelMagic ==
    (S("arm") :> <<"7f", "454c46", "01", "01", "01">> \o Times(9, "00")
                 \o <<"02", "00", "28", "00">>)
    @@ (S("aarch64") :> <<"7f", "454c46", "02", "01", "01">> \o Times(9, "00")
                        \o <<"02", "00", "b7", "00">>)

KernelMask ==
    Times(7, "ff") \o <<"00">> \o Times(8, "ff") \o <<"fe">> \o Times(3, "ff")

\* The handler file of a registration; without mask row for mask = <<>>
HandlerFile(magic, mask, interpreter) ==
    Cat([i \in 1..6 |->
        << S("enabled"),
           <<"interpreter", " ">> \o interpreter,
           <<"flags:", " ">>,
           <<"offset", " ", "0">>,
           <<"magic", " ">> \o magic,
           IF mask = <<>> THEN <<>> ELSE <<"mask", " ">> \o mask >>[i] \o S(NL)])

\* The run ends
BinfmtExit(code, why) ==
    /\ binfmt_pc' = "exit"
    /\ binfmt_status' = code
    /\ binfmt_error' = why

\* main, lines 168-183: argparse refuses an arch that is not of the choices
\* (status 2); then the caller has to be root
binfmt_main ==
    /\ binfmt_pc = "main"
    /\ IF options.arch \notin DOMAIN BINFMT_DB
       THEN BinfmtExit(2, "usage")
       ELSE IF uid # 0
       THEN BinfmtExit(1, "RuntimeError")
       ELSE /\ binfmt_pc' = IF options.mount THEN "mount" ELSE "check"
            /\ UNCHANGED <<binfmt_status, binfmt_error>>
    /\ UNCHANGED <<options, uid, handler, mounts, exists, register>>
    /\ UNCHANGED <<disk_vars, image_vars>>

\* _mount_binfmt, lines 76-77: check_output raises CalledProcessError
mount_binfmt ==
    /\ binfmt_pc = "mount"
    /\ \E rc \in ExitCodes :
          /\ mounts' = Append(mounts,
                 [cmd |-> <<S("mount"), S("binfmt_misc"), S("-t"), S("binfmt_misc"),
                            options.binfmt_misc>>,
                  rc  |-> rc])
          /\ IF rc # 0
             THEN BinfmtExit(1, "CalledProcessError")
             ELSE /\ binfmt_pc' = "check"
                  /\ UNCHANGED <<binfmt_status, binfmt_error>>
    /\ UNCHANGED <<options, uid, handler, exists, register>>
    /\ UNCHANGED <<disk_vars, image_vars>>

\* _check_binfmt, lines 96-124, and the "if not" of line 186
check_binfmt ==
    /\ binfmt_pc = "check"
    /\ IF handler = NoFile
       THEN /\ exists' = "no"
            /\ binfmt_pc' = "install"
            /\ UNCHANGED <<binfmt_status, binfmt_error>>
       ELSE /\ exists' = "yes"
            /\ IF mismatch(handler, BINFMT_DB[options.arch], options.interpreter) # <<>>
               THEN BinfmtExit(1, "RuntimeError")
               ELSE /\ binfmt_pc' = "ready"
                    /\ UNCHANGED <<binfmt_status, binfmt_error>>
    /\ UNCHANGED <<options, uid, handler, mounts, register>>
    /\ UNCHANGED <<disk_vars, image_vars>>

\* _install_binfmt, lines 155-157: the kernel takes the registration and
\* shows the handler, or refuses it (OSError)
install_binfmt ==
    /\ binfmt_pc = "install"
    /\ register' = Append(register,
                          registration(BINFMT_DB[options.arch], options.interpreter))
    /\ \E taken \in BOOLEAN :
          IF taken
          THEN /\ handler' = HandlerFile(KernelMagic[options.arch], KernelMask,
                                         options.interpreter)
               /\ binfmt_pc' = "ready"
               /\ UNCHANGED <<binfmt_status, binfmt_error>>
          ELSE /\ BinfmtExit(1, "OSError")
               /\ UNCHANGED handler
    /\ UNCHANGED <<options, uid, mounts, exists>>
    /\ UNCHANGED <<disk_vars, image_vars>>

\* line 189, and main returns
binfmt_ready ==
    /\ binfmt_pc = "ready"
    /\ BinfmtExit(0, "none")
    /\ UNCHANGED <<options, uid, handler, mounts, exists, register>>
    /\ UNCHANGED <<disk_vars, image_vars>>

\* The interpreters asked for, and the handlers that may be there
Interpreters ==
    {<<"/", "usr", "/", "bin", "/", "qemu-arm-static">>,
     <<"/", "usr", "/", "bin", "/", "qemu-aarch64-static">>}

HandlerFiles ==
    {NoFile}
    \cup {HandlerFile(KernelMagic[a], k, i) :
             a \in DOMAIN KernelMagic, k \in {KernelMask, <<>>}, i \in Interpreters}

BinfmtInit ==
    /\ binfmt_pc = "main"
    /\ options \in [mount       : BOOLEAN,
                    binfmt_misc : {<<"/", "proc", "/", "sys", "/", "fs", "/",
                                     "binfmt_misc">>},
                    arch        : {S("arm"), S("aarch64"), S("x86_64")},
                    interpreter : Interpreters]
    /\ uid \in {0, 1000}
    /\ handler \in HandlerFiles
    /\ mounts = <<>>
    /\ exists = "unchecked"
    /\ register = <<>>
    /\ binfmt_status = -1
    /\ binfmt_error = "none"
    /\ DiskOff
    /\ ImageOff

BinfmtNext ==
    \/ binfmt_main
    \/ mount_binfmt
    \/ check_binfmt
    \/ install_binfmt
    \/ binfmt_ready

SpecBinfmt == BinfmtInit /\ [][BinfmtNext]_vars

----------------------------------------------------------------------------
\* download-image.py: build_rpios_tgz, called by download_rpios once the
\* image is downloaded and unpacked

\* str.strip()
Strip(s) ==
    LET inner == {k \in 1..Len(s) : ~IsSpace(s[k])}
    IN  IF inner = {} THEN <<>>
        ELSE SubSeq(s, CHOOSE k \in inner : \A j \in inner : k <= j,
                       CHOOSE k \in inner : \A j \in inner : k >= j)

\* str.splitlines() of a stripped string
splitlines(s) == IF s = <<>> THEN <<>> ELSE Split(s, NL)

\* re.search(r'add map (\S+)', line): the places a match starts at
Matches(line) ==
    {k \in 1..(Len(line) - 4) :
        /\ SubSeq(line, k, k + 3) = <<"add", " ", "map", " ">>
        /\ ~IsSpace(line[k + 4])}

\* .group(1) of the first match
group1(line) ==
    LET k == CHOOSE m \in Matches(line) : \A j \in Matches(line) : m <= j
    IN  SubSeq(line, k + 4, RunEnd(line, k + 4, Spaces) - 1)

\* line 149
partitions(out) ==
    [i \in 1..Len(splitlines(out)) |-> group1(splitlines(out)[i])]

\* line 149 raises AttributeError (None.group), line 150 IndexError
ParseError(out) ==
    IF \E i \in 1..Len(splitlines(out)) : Matches(splitlines(out)[i]) = {}
    THEN "AttributeError"
    ELSE IF Len(splitlines(out)) < 2 THEN "IndexError"
    ELSE "none"

Rpios == <<"/", "mnt", "/", "rpios">>

Firmware == Rpios \o <<"/", "boot", "/", "firmware">>

Mapper == <<"/", "dev", "/", "mapper", "/">>

\* The k-th _run of the try block, lines 147-158
try_cmd(k, a, parts) ==
    CASE k = 1  -> <<S("kpartx"), S("-av"), a.img_file>>
      [] k = 2  -> <<S("mount"), Mapper \o parts[2], Rpios>>
      [] k = 3  -> <<S("mount"), Mapper \o parts[1], Firmware>>
      [] k = 4  -> <<S("tar"), S("-czf"), a.img_file \o <<".", "tmp">>, S("-C"),
                     Rpios, S(".")>>
      [] k = 5  -> <<S("chown"), <<"0", ":", "0">>, a.img_file \o <<".", "tmp">>>>
      [] k = 6  -> <<S("mv"), a.img_file \o <<".", "tmp">>,
                     a.output_dir \o S("/") \o a.filename \o <<".", "tgz">>>>
      [] k = 7  -> <<S("chown"), S("--recursive"), a.uid \o S(":") \o a.gid,
                     a.output_dir>>
      [] k = 8  -> <<S("umount"), Firmware>>
      [] k = 9  -> <<S("umount"), Rpios>>
      [] k = 10 -> <<S("kpartx"), S("-d"), a.img_file>>

\* The _run calls of the try block
TryLen == 10

\* The cleanup after the try block instead of in its finally clause: an
\* exception leaves the function at once
no_finally == "leave"

\* Where an exception of the try block goes: the finally clause, line 160
finally_entry == "rm"

\* _run, lines 27-42: the command is started and waited for
Ran(cmd, rc) == image_log' = Append(image_log, [cmd |-> cmd, rc |-> rc])

\* What "kpartx -av" may print: two maps, one, none, three, and two with a
\* line between them that is no map
MapLine(name) ==
    <<"add", " ", "map", " ", name, " ", "(254:0):", " ", "0", " ", "524288",
      " ", "linear", " ", "7:0", " ", "8192">>

KpartxOutputs ==
    {MapLine("loop0p1") \o S(NL) \o MapLine("loop0p2") \o S(NL),
     MapLine("loop0p1") \o S(NL),
     <<>>,
     MapLine("loop0p1") \o S(NL) \o MapLine("loop0p2") \o S(NL)
         \o MapLine("loop0p3") \o S(NL),
     MapLine("loop0p1") \o S(NL) \o <<"device-mapper:", " ", "reload">> \o S(NL)
         \o MapLine("loop0p2") \o S(NL)}

\* line 145: os.makedirs, outside the try block
image_build ==
    /\ image_pc = "build"
    /\ \E made \in BOOLEAN :
          IF made
          THEN image_pc' = "try" /\ UNCHANGED pending
          ELSE image_pc' = "leave" /\ pending' = "OSError"
    /\ UNCHANGED <<image_args, image_ip, kpartx_output, image_log, image_status>>
    /\ UNCHANGED <<disk_vars, binfmt_vars>>

\* One _run of the try block; a non-zero exit code raises SystemExit(1)
run_try ==
    /\ image_pc = "try"
    /\ \E rc \in ExitCodes :
          /\ Ran(try_cmd(image_ip, image_args, partitions(kpartx_output)), rc)
          /\ IF rc # 0
             THEN /\ pending' = "SystemExit"
                  /\ image_pc' = finally_entry
                  /\ UNCHANGED <<image_ip, kpartx_output>>
             ELSE /\ UNCHANGED pending
                  /\ image_ip' = image_ip + 1
                  /\ IF image_ip = 1
                     THEN /\ \E out \in KpartxOutputs : kpartx_output' = Strip(out)
                          /\ image_pc' = "parse"
                     ELSE /\ UNCHANGED kpartx_output
                          /\ image_pc' = IF image_ip = TryLen THEN "rm" ELSE "try"
    /\ UNCHANGED <<image_args, image_status>>
    /\ UNCHANGED <<disk_vars, binfmt_vars>>

\* lines 148-150: the partitions are read off the output
parse_partitions ==
    /\ image_pc = "parse"
    /\ IF ParseError(kpartx_output) # "none"
       THEN /\ pending' = ParseError(kpartx_output)
            /\ image_pc' = finally_entry
       ELSE /\ UNCHANGED pending
            /\ image_pc' = "try"
    /\ UNCHANGED <<image_args, image_ip, kpartx_output, image_log, image_status>>
    /\ UNCHANGED <<disk_vars, binfmt_vars>>

\* line 161; a SystemExit of its own takes the place of what was raised
run_rm ==
    /\ image_pc = "rm"
    /\ \E rc \in ExitCodes :
          /\ Ran(<<S("rm"), image_args.img_file>>, rc)
          /\ IF rc # 0
             THEN pending' = "SystemExit" /\ image_pc' = "leave"
             ELSE UNCHANGED pending /\ image_pc' = "rmdir"
    /\ UNCHANGED <<image_args, image_ip, kpartx_output, image_status>>
    /\ UNCHANGED <<disk_vars, binfmt_vars>>

\* line 162
run_rmdir ==
    /\ image_pc = "rmdir"
    /\ \E rc \in ExitCodes :
          /\ Ran(<<S("rmdir"), Rpios>>, rc)
          /\ pending' = IF rc # 0 THEN "SystemExit" ELSE pending
    /\ image_pc' = "leave"
    /\ UNCHANGED <<image_args, image_ip, kpartx_output, image_status>>
    /\ UNCHANGED <<disk_vars, binfmt_vars>>

\* build_rpios_tgz is left: download_rpios catches an Exception (line 132)
\* and main returns; SystemExit is none and ends the process with status 1
image_leave ==
    /\ image_pc = "leave"
    /\ image_pc' = "exit"
    /\ image_status' = IF pending = "SystemExit" THEN 1 ELSE 0
    /\ UNCHANGED <<image_args, image_ip, kpartx_output, image_log, pending>>
    /\ UNCHANGED <<disk_vars, binfmt_vars>>

\* lines 112-113 and 173-174: the names download_rpios hands over
ImageArgs(arch, board, uid_, gid_) ==
    [filename   |-> <<"rpios", "-", board, "-", arch>>,
     img_file   |-> <<"/", "root", "/", ".", "cache", "/", "rpios", "-", board,
                      "-", arch, ".", "img">>,
     output_dir |-> <<"/", "root", "/", "base">>,
     uid        |-> S(uid_),
     gid        |-> S(gid_)]

ImageInit ==
    /\ image_pc = "build"
    /\ image_args \in {ImageArgs(a, b, u, u) :
                          a \in {"arm", "arm64"}, b \in {"rpi3", "rpi4"},
                          u \in {"0", "1000"}}
    /\ image_ip = 1
    /\ kpartx_output = <<>>
    /\ image_log = <<>>
    /\ pending = "none"
    /\ image_status = -1
    /\ DiskOff
    /\ BinfmtOff

ImageNext ==
    \/ image_build
    \/ run_try
    \/ parse_partitions
    \/ run_rm
    \/ run_rmdir
    \/ image_leave

SpecImage == ImageInit /\ [][ImageNext]_vars

----------------------------------------------------------------------------
\* What the claims speak of

\* The command list exists: a builder has handed it to _run_commands
Built == pc = "run" \/ (pc = "exit" /\ error \notin {"usage", "AssertionError",
                                                    "ValueError", "RuntimeError"}
                        /\ mode # S("print-size"))

\* main has taken the invocation and called the mode's function
Dispatched == pc \in {"parse", "run"} \/ (pc = "exit" /\ error # "usage")

\* The words of a script line
Left(line) == SplitWs(SplitOnce(line, "#")[1])

\* The non-empty lines of the script
ScriptLines == FilterNone(Split(stdin, NL))

\* The places of list that hold the n-word command of partition i
Places(list, n, i) ==
    {k \in 1..Len(list) :
        /\ Len(list[k]) = n
        /\ list[k][2] = make_partition(device_path, i)}

\* Partition i has a mount path
Mounted(i) == filesystems[i].mount # <<>>

\* The directories of a mount path
Dirs(path) == FilterNone(Split(path, "/"))

\* Mount path p is a proper ancestor directory of mount path q
Ancestor(p, q) ==
    /\ Len(Dirs(p)) < Len(Dirs(q))
    /\ SubSeq(Dirs(q), 1, Len(Dirs(p))) = Dirs(p)

\* In list, the n-word command of partition i is there, and before that of j
InOrder(list, n, i, j) ==
    /\ Places(list, n, i) # {}
    /\ Places(list, n, j) # {}
    /\ \A ki \in Places(list, n, i), kj \in Places(list, n, j) : ki < kj

\* Of what was started, nothing of partition j came before partition i
NotBefore(list, n, i, j) ==
    \A kj \in Places(list, n, j) : \E ki \in Places(list, n, i) : ki < kj

\* C1: the commands are started in list order, one for each place of the
\* list up to the first that fails; after a non-zero exit code nothing more
\* is started (no later command, no undo) and the run ends with status 1.
C1_ListOrderAbortOnFailure ==
    /\ Len(rcs) = Len(started)
    /\ Len(started) <= Len(cmds)
    /\ \A k \in 1..Len(started) : started[k] = cmds[k] /\ started[k][1] # None
    /\ \A k \in 1..(Len(started) - 1) : rcs[k] = 0
    /\ started # <<>> /\ Last(rcs) # 0 =>
           pc = "exit" /\ status = 1 /\ ip = Len(started)
    /\ started # <<>> /\ Last(rcs) = 0 /\ pc = "run" => ip = Len(started) + 1

\* A command fails after others completed and with others still to come
C1_Witness ==
    /\ pc = "exit"
    /\ error = "CalledProcessError"
    /\ Len(started) >= 2
    /\ Len(started) < Len(cmds)

\* C2: when the program of any command of the list is not resolved, no
\* command of the list is started.
C2_UnresolvedStartsNothing ==
    (Built /\ \E k \in 1..Len(cmds) : cmds[k][1] = None) => started = <<>>

\* C3: mount mode has the mount command of an ancestor mount path before
\* that of a descendant, umount mode the umount command of the descendant
\* before that of the ancestor, in the list and in what is started.
C3_AncestorOrder ==
    (Built /\ mode \in {S("mount"), S("umount")}) =>
        \A i, j \in 1..Len(filesystems) :
            (Mounted(i) /\ Mounted(j)
             /\ Ancestor(filesystems[i].mount, filesystems[j].mount)) =>
                IF mode = S("mount")
                THEN InOrder(cmds, 3, i, j) /\ NotBefore(started, 3, i, j)
                ELSE InOrder(cmds, 2, j, i) /\ NotBefore(started, 2, j, i)

\* The ancestor is behind its descendant in the script, and the run is over
C3_Witness ==
    /\ pc = "exit"
    /\ error = "none"
    /\ mode \in {S("mount"), S("umount")}
    /\ \E i, j \in 1..Len(filesystems) :
          /\ j < i
          /\ Mounted(i) /\ Mounted(j)
          /\ Ancestor(filesystems[i].mount, filesystems[j].mount)
          /\ Len(started) = Len(cmds)

\* The partition devices of the mount commands of a list, and of its umount
\* commands (mkdir has "-p" where mount has the device)
MountDevices(list) ==
    LET ms == SelectSeq(list, LAMBDA c : Len(c) = 3 /\ c[2] # S("-p"))
    IN  [k \in 1..Len(ms) |-> ms[k][2]]

UmountDevices(list) ==
    LET us == SelectSeq(list, LAMBDA c : Len(c) = 2)
    IN  [k \in 1..Len(us) |-> us[k][2]]

\* C4: for one script and device, the devices umount mode unmounts are, in
\* order, the reverse of the devices mount mode mounts.
C4_UmountReversesMount ==
    /\ (Built /\ mode = S("umount")) =>
           UmountDevices(cmds)
               = Reverse(MountDevices(mount_cmds(filesystems, device_path, Prefix, TRUE)))
    /\ (Built /\ mode = S("mount")) =>
           MountDevices(cmds)
               = Reverse(UmountDevices(mount_cmds(filesystems, device_path, Prefix, FALSE)))

\* An umount run over three mounted partitions, two of them of one depth
C4_Witness ==
    /\ pc = "exit"
    /\ error = "none"
    /\ mode = S("umount")
    /\ Len(started) = 3
    /\ \E i, j \in 1..Len(filesystems) :
          /\ i < j
          /\ Mounted(i) /\ Mounted(j)
          /\ depth(filesystems[i].mount) = depth(filesystems[j].mount)

\* Partitions i < j (script order) have mount paths of one depth
Tie(i, j) ==
    /\ i < j
    /\ Mounted(i) /\ Mounted(j)
    /\ depth(filesystems[i].mount) = depth(filesystems[j].mount)

\* C5, as claimed: in the mount order and in the umount order, partitions
\* of equal depth keep their script order.
C5_TiesInScriptOrder ==
    (Built /\ mode \in {S("mount"), S("umount")}) =>
        \A i, j \in 1..Len(filesystems) :
            Tie(i, j) => InOrder(cmds, IF mode = S("mount") THEN 3 ELSE 2, i, j)

\* C5, amended: partitions of equal depth are mounted in script order and
\* unmounted in the reverse of script order.
C5_TiesReversedOnUmount ==
    (Built /\ mode \in {S("mount"), S("umount")}) =>
        \A i, j \in 1..Len(filesystems) :
            Tie(i, j) =>
                IF mode = S("mount")
                THEN InOrder(cmds, 3, i, j) /\ NotBefore(started, 3, i, j)
                ELSE InOrder(cmds, 2, j, i) /\ NotBefore(started, 2, j, i)

\* A mount run and an umount run, each over a tie, have ended
C5_Witness ==
    /\ pc = "exit"
    /\ error = "none"
    /\ mode \in {S("mount"), S("umount")}
    /\ Len(started) = Len(cmds)
    /\ \E i, j \in 1..Len(filesystems) : Tie(i, j)
    /\ \E i \in 1..Len(filesystems) : ~Mounted(i)

\* The words of the script lines parsed so far, and those of them that
\* make a partition
ParsedLefts == [k \in 1..(ln - 1) |-> Left(ScriptLines[k])]

Makers == SelectSeq(ParsedLefts, Qualifies)

\* _parse_script has returned its pair
WellFormed == pc = "run" \/ (pc = "exit" /\ error \notin {"usage", "AssertionError",
                                                         "ValueError"})

\* C6: there is one spec for each line that holds mkpart and primary or
\* logical, in script order, numbered 1, 2, ..., N; the other lines do not
\* advance the counter; parted holds the words of every non-empty line in
\* script order, so that its k-th such line is the line of spec k.
C6_SpecsNumberedInOrder ==
    pc # "main" =>
        LET all    == ScriptLines
            lefts  == [k \in 1..(ln - 1) |-> Left(all[k])]
            makers == SelectSeq(lefts, Qualifies)
            made   == SelectSeq(parted, Qualifies)
        IN  /\ parted = lefts
            /\ Len(filesystems) = Len(makers)
            /\ npart = Len(makers) + 1
            /\ \A k \in 1..Len(filesystems) :
                  /\ filesystems[k].npart = k
                  /\ filesystems[k].fs = made[k][3]
                  /\ filesystems[k].begin = parse_bytes(made[k][4])
            /\ WellFormed => Len(parted) = Len(all)

\* A well-formed script of a mklabel line and two partitions is parsed
C6_Witness ==
    /\ WellFormed
    /\ Len(parted) = 3
    /\ ~Qualifies(parted[1])
    /\ Len(filesystems) = 2
    /\ filesystems[2].npart = 2

\* C7: the end of a spec is 0 exactly when the end word of its line is the
\* literal 100%.
C7_EndZeroIffPercent ==
    pc # "main" =>
        LET makers == Makers
        IN  \A k \in 1..Len(filesystems) :
                filesystems[k].end = 0 <=> makers[k][5] = Pct

\* The script has a partition line of a kind mkfs does not make
HasUnsupported ==
    LET all == ScriptLines
    IN  \E k \in 1..Len(all) :
            LET left == Left(all[k])
            IN  /\ Qualifies(left)
                /\ Len(left) >= 3
                /\ left[3] \notin {S("fat32"), S("ext4")}

\* C8: in mkfs mode a script with a partition of another kind than fat32 or
\* ext4 has no command started, no list handed to _run_commands, and a
\* status other than 0.
C8_UnsupportedStartsNothing ==
    (Dispatched /\ mode = S("mkfs") /\ HasUnsupported) =>
        /\ started = <<>>
        /\ cmds = <<>>
        /\ pc # "run"
        /\ pc = "exit" => status # 0

\* The unsupported partition comes behind a supported one
C8_Witness ==
    /\ pc = "exit"
    /\ error = "RuntimeError"
    /\ mode = S("mkfs")
    /\ Len(filesystems) >= 2
    /\ ~unsupported(filesystems[1])
    /\ unsupported(filesystems[Len(filesystems)])

\* A partition line short of words, or with a size that does not parse
MalformedLine(line) ==
    LET left == Left(line)
    IN  /\ Qualifies(left)
        /\ \/ Len(left) < 5
           \/ left[4] \notin DOMAIN ByteTable
           \/ left[5] # Pct /\ left[5] \notin DOMAIN ByteTable

\* C9: in every mode a malformed script, wherever its malformed line is,
\* has no command started and a status other than 0; a command is started
\* only when every line is parsed.
C9_MalformedStartsNothing ==
    LET all == ScriptLines
    IN  /\ (pc # "main" /\ \E k \in 1..Len(all) : MalformedLine(all[k])) =>
               /\ started = <<>>
               /\ pc # "run"
               /\ pc = "exit" => status # 0
        /\ (pc = "run" \/ started # <<>>) => ln = Len(all) + 1

\* The last line of three is the malformed one, in format mode
C9_Witness ==
    /\ pc = "exit"
    /\ error \in {"AssertionError", "ValueError"}
    /\ mode = S("format")
    /\ Len(ScriptLines) = 3
    /\ ln = 3
    /\ MalformedLine(ScriptLines[3])
    /\ Len(filesystems) >= 1

\* The label and reserved flags of the claim
Flags(kind, label, reserved) ==
    (IF label # <<>> THEN <<S(IF kind = S("fat32") THEN "-n" ELSE "-L"), label>>
     ELSE <<>>)
    \o (IF kind = S("ext4") /\ reserved # <<>> THEN <<S("-m"), reserved>> ELSE <<>>)

\* C10: in mkfs mode with supported kinds the list is one mkfs.vfat or
\* mkfs.ext4 command for each spec, in index order, with its flags and the
\* partition device last, then partprobe and partx -vu on the device;
\* a spec without a mount path has its command too.
C10_MkfsList ==
    (Built /\ mode = S("mkfs")) =>
        LET n == Len(SelectSeq(ScriptLines, LAMBDA line : Qualifies(Left(line))))
        IN  /\ Len(cmds) = n + 2
            /\ \A k \in 1..n :
                  /\ filesystems[k].npart = k
                  /\ cmds[k] =
                        <<which(S(IF filesystems[k].fs = S("fat32")
                                  THEN "mkfs.vfat" ELSE "mkfs.ext4"))>>
                        \o Flags(filesystems[k].fs, filesystems[k].label,
                                 filesystems[k].reserved)
                        \o <<make_partition(device_path, k)>>
            /\ cmds[n + 1] = <<which(S("partprobe")), device_path>>
            /\ cmds[n + 2] = <<which(S("partx")), S("-vu"), device_path>>

\* A fat32 with a label and an ext4 without a mount path, both made
C10_Witness ==
    /\ pc = "exit"
    /\ error = "none"
    /\ mode = S("mkfs")
    /\ Len(started) = Len(cmds)
    /\ \E i, j \in 1..Len(filesystems) :
          /\ filesystems[i].fs = S("fat32") /\ filesystems[i].label # <<>>
          /\ filesystems[j].fs = S("ext4") /\ ~Mounted(j)
          /\ filesystems[j].label # <<>>
    /\ \E i \in 1..Len(filesystems) : filesystems[i].reserved # <<>>

----------------------------------------------------------------------------
\* C11: the list of format mode is one "parted device -a optimal -s words"
\* for each entry of parted (raw_lines), in script order and with the lines
\* that make no partition among them, then "partprobe device", then
\* "partx -vu device"; partprobe and partx are started only after every
\* parted command was started and gave exit code 0.
C11_FormatList ==
    (Built /\ mode = S("format")) =>
        LET n == Len(parted)
        IN  /\ Len(cmds) = n + 2
            /\ \A k \in 1..n :
                   cmds[k] = <<which(S("parted")), device_path, S("-a"),
                               S("optimal"), S("-s")>> \o Left(ScriptLines[k])
            /\ cmds[n + 1] = <<which(S("partprobe")), device_path>>
            /\ cmds[n + 2] = <<which(S("partx")), S("-vu"), device_path>>
            /\ \A k \in 1..Len(started) :
                   k > n => /\ \A j \in 1..n : started[j] = cmds[j] /\ rcs[j] = 0
                            /\ started[k] = cmds[k]

\* A script of three lines, the first of which makes no partition, has been
\* replayed and followed by partprobe and partx
C11_Witness ==
    /\ pc = "exit"
    /\ error = "none"
    /\ Dispatched
    /\ mode = S("format")
    /\ Len(parted) = 3
    /\ ~Qualifies(parted[1])
    /\ Qualifies(parted[2])
    /\ Len(started) = 5

\* A line has something on it besides blanks
NotBlank(line) == \E k \in 1..Len(line) : ~IsSpace(line[k])

\* C12: a line that is blank after trimming, empty or of blanks only, is
\* discarded: it makes no entry of parted (raw_lines) and no parted command.
C12_BlankLinesDiscarded ==
    (Built /\ mode = S("format")) =>
        LET kept == SelectSeq(Split(stdin, NL), NotBlank)
        IN  /\ Len(parted) = Len(kept)
            /\ Len(cmds) = Len(kept) + 2

\* The partitions that have a mount path, and the path and the device the
\* commands of partition i name
MountedParts == {i \in 1..Len(filesystems) : Mounted(i)}

MountPoint(i) == argv[4] \o S("/") \o filesystems[i].mount

PartDevice(i) == make_partition(device_path, i)

\* C13: the list of mount mode is one adjacent pair "mkdir -p P",
\* "mount DEV P" for each partition that has a mount path, P the prefix,
\* "/" and the mount path, DEV the partition's device; every mount command
\* comes, in the list and in what is started, right after the mkdir of its
\* path; a partition without mount path has no command in mount or umount
\* mode.
C13_MountPairs ==
    /\ (Built /\ mode = S("mount")) =>
           LET ms == MountedParts
           IN  /\ Len(cmds) = 2 * Cardinality(ms)
               /\ \A i \in ms :
                     \E j \in 1..Cardinality(ms) :
                         /\ cmds[2 * j - 1] = <<which(S("mkdir")), S("-p"), MountPoint(i)>>
                         /\ cmds[2 * j] = <<which(S("mount")), PartDevice(i), MountPoint(i)>>
               /\ \A k \in 1..Len(started) :
                     IF k % 2 = 1
                     THEN started[k][2] = S("-p")
                     ELSE /\ started[k][1] = which(S("mount"))
                          /\ started[k - 1]
                                 = <<which(S("mkdir")), S("-p"), started[k][3]>>
    /\ (Built /\ mode = S("umount")) =>
           LET ms == MountedParts
           IN  /\ Len(cmds) = Cardinality(ms)
               /\ \A i \in ms :
                     \E j \in 1..Len(cmds) :
                         cmds[j] = <<which(S("umount")), PartDevice(i)>>

\* A mount run over a script of three partitions, one without mount path,
\* has started both pairs
C13_Witness ==
    /\ pc = "exit"
    /\ error = "none"
    /\ Dispatched
    /\ mode = S("mount")
    /\ Len(filesystems) = 3
    /\ Cardinality(MountedParts) = 2
    /\ Len(started) = 4

\* The first piece of the base name of a path: what follows its last "/"
BaseHead(path) ==
    LET cut == CHOOSE k \in 0..Len(path) :
                   /\ k > 0 => path[k] = "/"
                   /\ \A j \in (k + 1)..Len(path) : path[j] # "/"
    IN  IF cut < Len(path) THEN path[cut + 1] ELSE ""

\* C15: the device of partition n is device, "p", n exactly when the base
\* name of device starts with mmcblk or loop, and device, n otherwise; the
\* directory of device and n have no part in it.
C15_PartitionPath ==
    (Dispatched /\ Len(argv) >= 3) =>
        LET p == IF BaseHead(device_path) \in {"mmcblk", "loop"} THEN S("p") ELSE <<>>
        IN  /\ \A n \in 1..Len(Digits) :
                   make_partition(device_path, n) = device_path \o p \o str(n)
            /\ (Built /\ mode = S("mkfs")) =>
                   \A k \in 1..Len(filesystems) :
                       Last(cmds[k]) = device_path \o p \o str(k)
            /\ (Built /\ mode = S("umount")) =>
                   \A k \in 1..Len(cmds) :
                       \E i \in MountedParts : cmds[k][2] = device_path \o p \o str(i)

\* mkfs has run on a device whose directory is named loop while its base
\* name is not
C15_Witness ==
    /\ pc = "exit"
    /\ error = "none"
    /\ Dispatched
    /\ mode = S("mkfs")
    /\ Has(device_path, "loop")
    /\ BaseHead(device_path) \notin {"mmcblk", "loop"}
    /\ Len(filesystems) >= 2
    /\ Len(started) = Len(cmds)

\* The set of the elements of a list
Range(list) == {list[k] : k \in 1..Len(list)}

\* The mount prefixes the modes are compared under
Prefixes == {Prefix, SrvPrefix, <<"/", "dev", "/", "null">>}

\* C18: umount mode has exactly one umount command for each device that
\* mount mode mounts for the same script and device, whatever the prefix,
\* and no other command.
C18_UmountSetIsMountSet ==
    /\ (Built /\ mode = S("umount")) =>
           /\ \A k \in 1..Len(cmds) :
                 Len(cmds[k]) = 2 /\ cmds[k][1] = which(S("umount"))
           /\ Cardinality(Range(UmountDevices(cmds))) = Len(cmds)
           /\ \A p \in Prefixes :
                 Range(UmountDevices(cmds))
                     = Range(MountDevices(mount_cmds(filesystems, device_path, p, TRUE)))
    /\ (Built /\ mode = S("mount")) =>
           LET us == UmountDevices(mount_cmds(filesystems, device_path,
                                              <<"/", "dev", "/", "null">>, FALSE))
           IN  /\ Range(MountDevices(cmds)) = Range(us)
               /\ Cardinality(Range(us)) = Len(us)
               /\ Len(us) = Len(MountDevices(cmds))

\* An umount run over a script with a partition that is never mounted
C18_Witness ==
    /\ pc = "exit"
    /\ error = "none"
    /\ Dispatched
    /\ mode = S("umount")
    /\ Len(filesystems) = 3
    /\ Cardinality(MountedParts) = 2
    /\ Len(started) = 2

\* An invocation without mode, with a mode that is none of the five, or
\* with a mode and another number of arguments than the mode takes
Malformed ==
    \/ Len(argv) = 1
    \/ argv[2] \notin {S("format"), S("mkfs"), S("mount"), S("umount"),
                       S("print-size")}
    \/ argv[2] \in {S("format"), S("mkfs"), S("umount")} /\ Len(argv) # 3
    \/ argv[2] = S("mount") /\ Len(argv) # 4
    \/ argv[2] = S("print-size") /\ Len(argv) # 2

\* C16: a malformed invocation ends with a usage message and a non-zero
\* status; the script is not read, no command is built or started and no
\* size is printed.
C16_MalformedInvocation ==
    Malformed =>
        /\ pc = "main" \/ (pc = "exit" /\ error = "usage" /\ status # 0)
        /\ lines = <<>> /\ ln = 1
        /\ parted = <<>> /\ filesystems = <<>>
        /\ cmds = <<>> /\ started = <<>>
        /\ output = <<>>

\* A mode that is known, called with an argument too few, has ended
C16_Witness ==
    /\ pc = "exit"
    /\ Len(argv) = 3
    /\ argv[2] = S("mount")
    /\ stdin # <<>>
    /\ status = 1

\* print-size has printed
Printed == pc = "exit" /\ error = "none" /\ Dispatched /\ mode = S("print-size")

\* a <= b for sizes with 0 <= lo < 65536
BigLeq(a, b) == a.hi < b.hi \/ (a.hi = b.hi /\ a.lo <= b.lo)

\* L + 2 GiB aligned down to 4096 is what was printed: a multiple of 4096
\* with output <= L + 2147483648 < output + 4096
PrintedFor(L) ==
    LET sum == BigAdd(Big(L), TwoGb)
        out == output[1]
    IN  /\ Len(output) = 1
        /\ out.lo \in 0..65535
        /\ out.lo % 4096 = 0
        /\ BigLeq(out, sum)
        /\ sum # BigAdd(out, Big(4096))
        /\ BigLeq(sum, BigAdd(out, Big(4096)))

\* C14, as claimed: L is the end of the last partition when that is not
\* zero, its begin when it is zero, and 0 for a script without partitions.
C14_EndWhenNonzero ==
    Printed =>
        PrintedFor(IF filesystems = <<>> THEN 0
                   ELSE IF Last(filesystems).end # 0
                   THEN Last(filesystems).end
                   ELSE Last(filesystems).begin)

\* C14: print-size prints align_down(L + 2 GiB, 4096), L from the last
\* partition only: its end when that is greater than zero, its begin when
\* the end is zero or less, 0 for a script without partitions; what is
\* printed is a multiple of 4096 with output <= L + 2147483648 < output + 4096.
C14_EndWhenPositive ==
    Printed =>
        PrintedFor(IF filesystems = <<>> THEN 0
                   ELSE IF Last(filesystems).end > 0
                   THEN Last(filesystems).end
                   ELSE Last(filesystems).begin)

\* The size of a script whose last partition ends off the 4096 boundary,
\* behind a partition that ends further out
C14_Witness ==
    /\ Printed
    /\ Len(filesystems) = 2
    /\ filesystems[2].end = 1000
    /\ filesystems[1].end = 1073741824
    /\ output = <<[hi |-> 32768, lo |-> 0]>>

\* What partition i takes of the device: its end, or its begin when the end
\* is the sentinel of "100%"
Extent(i) ==
    IF filesystems[i].end # 0 THEN filesystems[i].end ELSE filesystems[i].begin

\* The result before it is aligned
Unaligned == BigAdd(Big(size_walk(filesystems, 0)), TwoGb)

\* C17, as claimed: for every partition of the script, whatever the order,
\* the unaligned result is at least the partition's end (its begin when
\* the end is 100%) plus 2 GiB.
C17_CoversEveryPartition ==
    Printed =>
        \A i \in 1..Len(filesystems) :
            BigLeq(BigAdd(Big(Extent(i)), TwoGb), Unaligned)

\* C17: the unaligned result is the end (the begin when the end is not
\* greater than zero) of the last partition plus 2 GiB, and what is printed
\* is that aligned down; so it covers the partitions that do not end behind
\* the last one, and all of them when the script lists them in ascending
\* order.
C17_CoversUpToLast ==
    (Printed /\ filesystems # <<>>) =>
        LET n    == Len(filesystems)
            last == IF filesystems[n].end > 0 THEN filesystems[n].end
                    ELSE filesystems[n].begin
        IN  /\ Unaligned = BigAdd(Big(last), TwoGb)
            /\ output[1] = BigSubSmall(Unaligned, Unaligned.lo % 4096)
            /\ \A i \in 1..n :
                  Extent(i) <= last =>
                      BigLeq(BigAdd(Big(Extent(i)), TwoGb), Unaligned)

\* The size of three partitions, the first of which ends behind the last
\* and the second before it
C17_Witness ==
    /\ Printed
    /\ Len(filesystems) = 3
    /\ Extent(1) > Extent(3)
    /\ Extent(2) < Extent(3)
    /\ Extent(3) = 268435456

\* The handler file the architecture and the interpreter of the command
\* line ask for
Expected ==
    HandlerFile(KernelMagic[options.arch], KernelMask, options.interpreter)

\* C19: the register file is written at most once in a run, and only after
\* no handler file was found for the architecture; when one was found,
\* nothing is written, and when its magic, mask or interpreter is not the
\* expected one the run ends with an error; for a caller that is not root
\* the run ends with an error before the mount, the check and the write.
C19_RegisterOnceWhenAbsent ==
    /\ Len(register) <= 1
    /\ register # <<>> => exists = "no" /\ uid = 0
    /\ exists = "no" => binfmt_pc = "install" \/ Len(register) = 1
    /\ exists = "yes" =>
          /\ register = <<>>
          /\ handler # NoFile
          /\ handler # Expected =>
                 binfmt_pc = "exit" /\ binfmt_status = 1
                 /\ binfmt_error = "RuntimeError"
          /\ handler = Expected => binfmt_pc \in {"ready", "exit"}
                                   /\ binfmt_error = "none"
    /\ (uid # 0 /\ binfmt_pc # "main") =>
          /\ binfmt_pc = "exit" /\ binfmt_status # 0
          /\ mounts = <<>> /\ exists = "unchecked" /\ register = <<>>

\* No handler was there after the mount: the registration is written, once,
\* and the run ends well
C19_Witness ==
    /\ binfmt_pc = "exit"
    /\ binfmt_status = 0
    /\ Len(mounts) = 1
    /\ exists = "no"
    /\ register = <<registration(BINFMT_DB[S("aarch64")], options.interpreter)>>

\* The places of the log where the command first ... last was started
Where(first, last) ==
    {k \in 1..Len(image_log) :
        image_log[k].cmd[1] = S(first) /\ Last(image_log[k].cmd) = last}

\* The commands of the finally clause
Cleanup(k) == image_log[k].cmd[1] \in {S("rm"), S("rmdir")}

\* A command of the try block has failed
TryFailed == \E k \in 1..Len(image_log) : ~Cleanup(k) /\ image_log[k].rc # 0

\* C20: when a command of the sequence kpartx, mount, mount, tar, chown,
\* mv, chown, umount, umount, kpartx -d fails, no later command of the
\* sequence is started, and "rm img_file" is started before the process
\* ends; in a run where all succeed the firmware mount is unmounted before
\* the root mount it was mounted after, both before "kpartx -d", and that
\* before rm and rmdir.
C20_CleanupAfterFailure ==
    /\ \A k \in 1..Len(image_log) :
          (~Cleanup(k) /\ image_log[k].rc # 0) =>
              /\ \A j \in (k + 1)..Len(image_log) : Cleanup(j)
              /\ k < Len(image_log) =>
                     image_log[k + 1].cmd = <<S("rm"), image_args.img_file>>
              /\ image_pc \in {"rm", "rmdir", "leave", "exit"}
    /\ (TryFailed /\ image_pc \in {"rmdir", "leave", "exit"}) =>
          Where("rm", image_args.img_file) # {}
    /\ (TryFailed /\ image_pc = "exit") => image_status = 1
    /\ (image_pc = "exit" /\ image_status = 0 /\ pending = "none") =>
          /\ \A k \in 1..Len(image_log) : image_log[k].rc = 0
          /\ \E m1 \in Where("mount", Rpios), m2 \in Where("mount", Firmware),
                u2 \in Where("umount", Firmware), u1 \in Where("umount", Rpios),
                d \in Where("kpartx", image_args.img_file) :
                /\ m1 < m2 /\ m2 < u2 /\ u2 < u1 /\ u1 < d
                /\ image_log[d].cmd[2] = S("-d")
                /\ \A c \in Where("rm", image_args.img_file) \cup Where("rmdir", Rpios) :
                      d < c
          /\ Cardinality(Where("mount", Rpios)) = 1
          /\ Cardinality(Where("mount", Firmware)) = 1
          /\ Cardinality(Where("umount", Rpios)) = 1
          /\ Cardinality(Where("umount", Firmware)) = 1
          /\ Cardinality(Where("rm", image_args.img_file)) = 1
          /\ Cardinality(Where("rmdir", Rpios)) = 1

\* tar has failed after both mounts: the image file was removed, nothing
\* was unmounted and the process has ended with status 1
C20_Witness ==
    /\ image_pc = "exit"
    /\ image_status = 1
    /\ Len(image_log) = 6
    /\ image_log[4].cmd[1] = S("tar")
    /\ image_log[4].rc # 0
    /\ image_log[5].cmd = <<S("rm"), image_args.img_file>>
    /\ image_log[6].cmd[1] = S("rmdir")

====
